---- MODULE Spec2Model ----
(***************************************************************************)
(* The swap form of the waves web application: the reducer of App.tsx, the *)
(* useReducer cell that holds its state, and the handlers of AssetSelector *)
(* and ExchangeIcon that dispatch into it.                                 *)
(*                                                                         *)
(* JavaScript objects are modelled by reference where the code shares      *)
(* them: the alpha leg ({type, amount}) lives in a heap, a state record    *)
(* holds a reference to it.  A JavaScript value that is either a string or *)
(* a number is a record [tag, val]; val is the text of a string, or the    *)
(* text String(n) of a number n.                                           *)
(***************************************************************************)
EXTENDS Integers, FiniteSets, Sequences, TLC

\* ---------------------------------------------------------------- bounds
\* Heap cells for alpha-leg objects.  Three are live at most: the one of
\* initialState, the one of the state passed to the reducer and the one of
\* the state it returns.
NumRefs == 3
\* How many times Sign and Send is clicked.
MaxConfirms == 2
\* How many runs of fetchSwapTransaction are under way at once.
MaxFetches == 2
\* Largest balance an UpdateBalance action carries.
MaxBalance == 1

\* ------------------------------------------------------------ data model
LBTC == "L-BTC"
USDT == "USDt"
Asset == {LBTC, USDT}

Str(s) == [tag |-> "string", val |-> s]
Num(s) == [tag |-> "number", val |-> s]

\* Amount strings a caller of the reducer passes (Action.value: string).
AmountStrings == {Str("0.01"), Str("42"), Str("")}
\* valueAsNumber of the Chakra NumberInput; an empty field gives NaN.
AmountNumbers == {Num("0.4"), Num("NaN")}
\* The same, with the amounts of the quote examples and a negative entry.
QuoteAmountNumbers == AmountNumbers \cup {Num("1"), Num("30100"), Num("-1")}

\* A JavaScript number that is read arithmetically: NaN, or the fraction n/d
\* in lowest terms.
NaN == [k |-> "nan", n |-> 0, d |-> 1]

RECURSIVE Gcd(_, _)
Gcd(a, b) == IF b = 0 THEN a ELSE Gcd(b, a % b)

Fin(n, d) ==
    LET g == Gcd(IF n < 0 THEN -n ELSE n, d) IN
    [k |-> "fin", n |-> n \div g, d |-> d \div g]

\* Common factors are taken out before multiplying, which keeps the products
\* small.
Mul(x, y) ==
    LET a == Fin(x.n, y.d)
        b == Fin(y.n, x.d)
    IN  [k |-> "fin", n |-> a.n * b.n, d |-> a.d * b.d]
Div(x, y) == Mul(x, [k |-> "fin", n |-> y.d, d |-> y.n])

\* Number.parseFloat(v): a number argument is first converted to its text.
ParseFloat(v) ==
    CASE v.val = "0.01" -> Fin(1, 100)
      [] v.val = "0.4" -> Fin(2, 5)
      [] v.val = "42" -> Fin(42, 1)
      [] v.val = "1" -> Fin(1, 1)
      [] v.val = "30100" -> Fin(30100, 1)
      [] v.val = "-1" -> Fin(-1, 1)
      [] OTHER -> NaN

\* The rate useSSE starts with, and rates the subscription delivers.
initialRate == [ask |-> Fin(3376630, 100), bid |-> Fin(3367010, 100)]
Rates == {initialRate,
          [ask |-> Fin(30100, 1), bid |-> Fin(30000, 1)],
          [ask |-> Fin(0, 1), bid |-> Fin(0, 1)]}

\* betaAmount values a direct caller of the reducer puts into SwapAssetTypes.
BetaAmounts == {Fin(1, 10), Fin(42, 1)}

TxIds == {"tx1", "tx2"}
BalanceValues == 0..MaxBalance

Refs == 0..(NumRefs - 1)
\* The cell of initialState.alpha, a module-level constant object.
InitialRef == 0
FirstRef == 1
\* Content of a cell no live state refers to.
Free == [type |-> "free", amount |-> Str("")]

HandledKinds ==
    {"UpdateAlphaAmount", "UpdateAlphaAssetType", "UpdateBetaAssetType", "SwapAssetTypes",
     "PublishTransaction", "UpdateBalance", "UpdateWalletStatus"}

NoAction == [type |-> "none", value |-> "none"]

\* A variant of initialState.alpha with the amount "0".
initialAlphaZero == [type |-> LBTC, amount |-> Str("0")]

initialAlpha == [type |-> LBTC, amount |-> Str("0.01")]

initialState ==
    [alpha |-> InitialRef,
     beta |-> USDT,
     txId |-> "",
     wallet |-> [balance |-> [usdtBalance |-> 0, btcBalance |-> 0],
                 status |-> [exists |-> FALSE, loaded |-> FALSE]]]

\* Results of getWalletStatus.
WalletStatuses ==
    {[exists |-> FALSE, loaded |-> FALSE],
     [exists |-> TRUE, loaded |-> FALSE],
     [exists |-> TRUE, loaded |-> TRUE]}
\* Values of a balance entry that getBalances returns.
BalanceNumbers == {Fin(0, 1), Fin(1, 1)}
\* Transactions the post of a payload returns, and trades extractTrade finds.
Transactions == {"txA", "txB"}
Trades == {"trade"}

\* useAsync({deferFn}) before its first run.
idleRun ==
    [pc |-> "idle", kind |-> "none", amount |-> "", created |-> <<>>, posted |-> <<>>,
     tx |-> ""]

initialApp ==
    [walletStatus |-> [exists |-> FALSE, loaded |-> FALSE],
     balances |-> [btc |-> Fin(0, 1), usdt |-> Fin(0, 1)],
     transaction |-> <<"", "none">>,
     run |-> idleRun]

\* The status of a response that postSellPayload accepts.
StatusOk == 200
\* Responses of the sell endpoint: a status and a body text.
Statuses == {StatusOk, 201, 404, 500}
Responses == [status : Statuses, text : Transactions]

\* The runs of fetchSwapTransaction, and one that is not under way.
Fetches == 1..MaxFetches
idleFetch == [pc |-> "idle", tx |-> "", status |-> 0]

\* SwapWithWallet after its first render: no transaction, the drawer closed,
\* nothing fetched, nothing signed.
initialSww ==
    [transaction |-> "", elements |-> "undefined", isOpen |-> FALSE, path |-> "/swap",
     fetch |-> [i \in Fetches |-> idleFetch], postError |-> 0,
     clicks |-> 0, signCalls |-> 0, pending |-> 0, failed |-> 0, signed |-> <<>>,
     confirmed |-> <<>>, closes |-> 0, pushes |-> 0]

VARIABLES
    heap,        \* Refs -> the alpha-leg objects ({type, amount})
    state,       \* the state held by useReducer: alpha is a reference into heap
    prev,        \* the state object the last call (of the reducer, or of a handler
                 \* that raised before dispatching) found
    pre,         \* the value that state object had when that call began
    lastAction,  \* the action that call dispatched, NoAction if none
    outcome,     \* how that call ended: the reducer "returned" or "threw", or the
                 \* handler "rejected" the event; "none" before the first call
    rate,        \* the latest rate delivered by the rate subscription
    app,         \* App's other hooks: the wallet status and balances it fetched,
                 \* the stored [transaction, trade], and the run of makeNewSwap
    sww          \* the SwapWithWallet component: its hooks, the calls it made and
                 \* the pending calls of its handlers

vars == <<heap, state, prev, pre, lastAction, outcome, rate, app, sww>>

\* The value of a state object: its alpha reference followed into the heap.
Value(st, hp) ==
    [alpha |-> hp[st.alpha], beta |-> st.beta, txId |-> st.txId, wallet |-> st.wallet]

\* ---------------------------------------------------------------- reducer
\* The cell a fresh object literal gets: the first one that neither
\* initialState nor the reducer's argument refers to.
NewRef(st) ==
    CHOOSE r \in Refs :
        /\ r \notin {InitialRef, st.alpha}
        /\ \A q \in Refs : q \notin {InitialRef, st.alpha} => r <= q

Returned(st, hp) == [threw |-> FALSE, state |-> st, heap |-> hp]
Thrown(st, hp) == [threw |-> TRUE, state |-> st, heap |-> hp]

\* Each case of the switch is followed into an operator of its name.  The
\* operators defined before a case are faulty variants of it, which the
\* properties below are expected to tell apart from the case itself.

\* case "UpdateAlphaAmount"
UpdateAlphaAmountKeepsInitialType(st, hp, action) ==
    LET r == NewRef(st) IN
    Returned([st EXCEPT !.alpha = r],
             [hp EXCEPT ![r] = [type |-> initialAlpha.type, amount |-> action.value]])

UpdateAlphaAmount(st, hp, action) ==
    LET r == NewRef(st) IN
    Returned([st EXCEPT !.alpha = r],
             [hp EXCEPT ![r] = [type |-> hp[st.alpha].type, amount |-> action.value]])

\* case "UpdateAlphaAssetType"
UpdateAlphaAssetTypeKeepsBeta(st, hp, action) ==
    LET r == NewRef(st) IN
    Returned([st EXCEPT !.alpha = r],
             [hp EXCEPT ![r] = [type |-> action.value, amount |-> hp[st.alpha].amount]])

UpdateAlphaAssetTypeAlwaysFlips(st, hp, action) ==
    LET r == NewRef(st) IN
    Returned([st EXCEPT !.alpha = r, !.beta = hp[st.alpha].type],
             [hp EXCEPT ![r] = [type |-> action.value, amount |-> hp[st.alpha].amount]])

UpdateAlphaAssetType(st, hp, action) ==
    LET r == NewRef(st)
        beta == IF st.beta = action.value THEN hp[st.alpha].type ELSE st.beta
    IN  Returned([st EXCEPT !.alpha = r, !.beta = beta],
                 [hp EXCEPT ![r] = [type |-> action.value, amount |-> hp[st.alpha].amount]])

\* case "UpdateBetaAssetType": let alpha = state.alpha is the object of the
\* state passed in, and alpha.type = state.beta assigns to it in place.
UpdateBetaAssetTypeKeepsAlpha(st, hp, action) ==
    Returned([st EXCEPT !.beta = action.value], hp)

UpdateBetaAssetType(st, hp, action) ==
    LET hp2 == IF hp[st.alpha].type = action.value
               THEN [hp EXCEPT ![st.alpha].type = st.beta]
               ELSE hp
    IN  Returned([st EXCEPT !.beta = action.value], hp2)

\* case "SwapAssetTypes"
SwapAssetTypesTakesBetaAmount(st, hp, action) ==
    LET r == NewRef(st) IN
    Returned([st EXCEPT !.alpha = r, !.beta = hp[st.alpha].type],
             [hp EXCEPT ![r] = [type |-> st.beta,
                                amount |-> Num(ToString(action.value.betaAmount))]])

SwapAssetTypesOnlyAlpha(st, hp, action) ==
    LET r == NewRef(st) IN
    Returned([st EXCEPT !.alpha = r],
             [hp EXCEPT ![r] = [type |-> st.beta, amount |-> hp[st.alpha].amount]])

SwapAssetTypes(st, hp, action) ==
    LET r == NewRef(st) IN
    Returned([st EXCEPT !.alpha = r, !.beta = hp[st.alpha].type],
             [hp EXCEPT ![r] = [type |-> st.beta, amount |-> hp[st.alpha].amount]])

\* case "PublishTransaction"
PublishTransactionStoresTxId(st, hp, action) ==
    Returned([st EXCEPT !.txId = action.value], hp)

PublishTransaction(st, hp, action) ==
    Returned(st, hp)

\* case "UpdateBalance"
UpdateBalance(st, hp, action) ==
    Returned([st EXCEPT !.wallet.balance = [usdtBalance |-> action.value.usdt,
                                            btcBalance |-> action.value.btc]], hp)

\* case "UpdateWalletStatus"
UpdateWalletStatus(st, hp, action) ==
    Returned([st EXCEPT !.wallet.status = [exists |-> action.value.exists,
                                           loaded |-> action.value.loaded]], hp)

\* default
UnknownActionIgnored(st, hp, action) ==
    Returned(st, hp)

UnknownAction(st, hp, action) ==
    Thrown(st, hp)

\* reducer(state, action): the state it returns and the heap it leaves.
reducer(st, hp, action) ==
    CASE action.type = "UpdateAlphaAmount" -> UpdateAlphaAmount(st, hp, action)
      [] action.type = "UpdateAlphaAssetType" -> UpdateAlphaAssetType(st, hp, action)
      [] action.type = "UpdateBetaAssetType" -> UpdateBetaAssetType(st, hp, action)
      [] action.type = "SwapAssetTypes" -> SwapAssetTypes(st, hp, action)
      [] action.type = "PublishTransaction" -> PublishTransaction(st, hp, action)
      [] action.type = "UpdateBalance" -> UpdateBalance(st, hp, action)
      [] action.type = "UpdateWalletStatus" -> UpdateWalletStatus(st, hp, action)
      [] OTHER -> UnknownAction(st, hp, action)

\* Cells that no state the program still holds refers to are cleared.
Collect(hp, live) == [r \in Refs |-> IF r \in live THEN hp[r] ELSE Free]

\* Cell names carry no meaning: with the current state's alpha leg in cell a,
\* the cells are renamed so that it is in cell 1, unless it is the object of
\* initialState.
Renamed(a, r) ==
    IF a \in {InitialRef, FirstRef} THEN r
    ELSE IF r = FirstRef THEN a
    ELSE IF r = a THEN FirstRef
    ELSE r

\* dispatch(action) of useReducer: the reducer runs on the current state and
\* its result becomes the current state; an error leaves the state as it was.
dispatch(action) ==
    \E res \in {reducer(state, heap, action)} :
        LET a == IF res.threw THEN state.alpha ELSE res.state.alpha IN
        /\ lastAction' = action
        /\ pre' = Value(state, heap)
        /\ prev' = [state EXCEPT !.alpha = Renamed(a, state.alpha)]
        /\ outcome' = IF res.threw THEN "threw" ELSE "returned"
        /\ state' = IF res.threw THEN state
                     ELSE [res.state EXCEPT !.alpha = Renamed(a, a)]
        /\ heap' = [r \in Refs |->
                      IF Renamed(a, r) \in {InitialRef, state.alpha, a}
                      THEN res.heap[Renamed(a, r)] ELSE Free]

\* ------------------------------------------------------ derived values
\* A variant of calculateBetaAmount that computes with whatever it is given.
calculateBetaAmountUnguarded(alphaType, alphaAmount, r) ==
    IF alphaAmount.k # "fin" THEN NaN
    ELSE IF alphaType = LBTC THEN Mul(alphaAmount, r.bid)
    ELSE IF r.ask.n = 0
         THEN [k |-> IF alphaAmount.n = 0 THEN "nan" ELSE "inf", n |-> 0, d |-> 1]
         ELSE Div(alphaAmount, r.ask)

\* calculateBetaAmount(alphaType, alphaAmount, rate)
calculateBetaAmount(alphaType, alphaAmount, r) ==
    IF alphaAmount.k # "fin" \/ alphaAmount.n < 0 THEN Fin(0, 1)
    ELSE IF alphaType = LBTC
         THEN (IF r.bid.n <= 0 THEN Fin(0, 1) ELSE Mul(alphaAmount, r.bid))
         ELSE (IF r.ask.n <= 0 THEN Fin(0, 1) ELSE Div(alphaAmount, r.ask))

\* const alphaAmount = Number.parseFloat(state.alpha.amount)
alphaAmount == ParseFloat(heap[state.alpha].amount)
\* A variant of betaAmount that quotes for the type of the beta leg.
betaAmountOfBetaType == calculateBetaAmount(state.beta, alphaAmount, rate)

\* const betaAmount = calculateBetaAmount(state.alpha.type, alphaAmount, rate)
betaAmount == calculateBetaAmount(heap[state.alpha].type, alphaAmount, rate)

\* getDirection(alphaType)
getDirection(alphaType) == IF alphaType = LBTC THEN "bid" ELSE "ask"

\* RateInfo({rate, direction}): the side of the rate it shows.
RateInfo(r, direction) ==
    IF direction = "ask"
    THEN [direction |-> "ask", shown |-> r.ask]
    ELSE [direction |-> "bid", shown |-> r.bid]

\* <RateInfo rate={rate} direction={getDirection(state.alpha.type)} />
rateInfo == RateInfo(rate, getDirection(heap[state.alpha].type))

\* --------------------------------------------- callers of the reducer
\* The reducer called with actions of type Action, as its tests call it.
DispatchUpdateAlphaAmount ==
    /\ \E a \in AmountStrings : dispatch([type |-> "UpdateAlphaAmount", value |-> a])
    /\ UNCHANGED <<rate, app, sww>>

DispatchUpdateAlphaAssetType ==
    /\ \E t \in Asset : dispatch([type |-> "UpdateAlphaAssetType", value |-> t])
    /\ UNCHANGED <<rate, app, sww>>

DispatchUpdateBetaAssetType ==
    /\ \E t \in Asset : dispatch([type |-> "UpdateBetaAssetType", value |-> t])
    /\ UNCHANGED <<rate, app, sww>>

DispatchSwapAssetTypes ==
    /\ \E b \in BetaAmounts :
          dispatch([type |-> "SwapAssetTypes", value |-> [betaAmount |-> b]])
    /\ UNCHANGED <<rate, app, sww>>

DispatchPublishTransaction ==
    /\ \E id \in TxIds : dispatch([type |-> "PublishTransaction", value |-> id])
    /\ UNCHANGED <<rate, app, sww>>

DispatchUpdateBalance ==
    /\ \E u \in BalanceValues, b \in BalanceValues :
          dispatch([type |-> "UpdateBalance", value |-> [usdt |-> u, btc |-> b]])
    /\ UNCHANGED <<rate, app, sww>>

DispatchUpdateWalletStatus ==
    /\ \E e \in BOOLEAN, l \in BOOLEAN :
          dispatch([type |-> "UpdateWalletStatus", value |-> [exists |-> e, loaded |-> l]])
    /\ UNCHANGED <<rate, app, sww>>

\* An action whose kind the switch does not list.
DispatchUnknown ==
    /\ dispatch([type |-> "Unknown", value |-> "none"])
    /\ UNCHANGED <<rate, app, sww>>

\* ------------------------------------------------------- the view layer
AssetSide == {"Alpha", "Beta"}

\* A variant of onAmountChange that dispatches whatever the side is.
onAmountChangeAnySide(assetSide, newAmount) ==
    dispatch([type |-> "UpdateAlphaAmount", value |-> newAmount])

\* AssetSelector.onAmountChange(newAmount), called by NumberInput's onChange
\* with the field's valueAsNumber.
onAmountChange(assetSide, newAmount) ==
    IF assetSide = "Alpha"
    THEN dispatch([type |-> "UpdateAlphaAmount", value |-> newAmount])
    ELSE \* throw new Error("Only support editing alpha amount at the moment")
         /\ outcome' = "rejected"
         /\ lastAction' = NoAction
         /\ pre' = Value(state, heap)
         /\ prev' = state
         /\ heap' = Collect(heap, {InitialRef, state.alpha})
         /\ UNCHANGED state

OnAmountChange ==
    /\ \E side \in AssetSide, n \in AmountNumbers : onAmountChange(side, n)
    /\ UNCHANGED <<rate, app, sww>>

\* The same on the alpha side, with the wider range of entries.
OnQuoteAmountChange ==
    /\ \E n \in QuoteAmountNumbers : onAmountChange("Alpha", n)
    /\ UNCHANGED <<rate, app, sww>>

\* AssetSelector.onAssetTypeChange(newType), called by AssetSelect.
onAssetTypeChange(assetSide, newType) ==
    IF assetSide = "Alpha"
    THEN dispatch([type |-> "UpdateAlphaAssetType", value |-> newType])
    ELSE dispatch([type |-> "UpdateBetaAssetType", value |-> newType])

OnAssetTypeChange ==
    /\ \E side \in AssetSide, t \in Asset : onAssetTypeChange(side, t)
    /\ UNCHANGED <<rate, app, sww>>

\* ExchangeIcon's onClick: the action carries the beta amount on display.
ExchangeIconOnClick ==
    /\ dispatch([type |-> "SwapAssetTypes", value |-> [betaAmount |-> betaAmount]])
    /\ UNCHANGED <<rate, app, sww>>

\* A variant of onRate that takes over the bid and keeps the ask it had.
onRateKeepsAsk(r) ==
    /\ rate' = [ask |-> rate.ask, bid |-> r.bid]
    /\ UNCHANGED <<heap, state, prev, pre, lastAction, outcome, app, sww>>

\* useSSE("rate", ...): an event of the subscription replaces the rate.
onRate(r) ==
    /\ rate' = r
    /\ UNCHANGED <<heap, state, prev, pre, lastAction, outcome, app, sww>>

\* The "rate" subscription of useSSE delivers a rate.
RateUpdate == \E r \in Rates : onRate(r)

\* JavaScript's < on numbers: false when either side is NaN.
Less(x, y) == x.k = "fin" /\ y.k = "fin" /\ x.n * y.d < y.n * x.d

\* The balances App renders: the entries of the fetched balances, or 0 while the
\* wallet is not loaded (the fetch has no key then and yields no data).
btcBalance == IF app.walletStatus.loaded THEN app.balances.btc ELSE Fin(0, 1)
usdtBalance == IF app.walletStatus.loaded THEN app.balances.usdt ELSE Fin(0, 1)

isSwapButtonDisabledOtherAsset ==
    IF heap[state.alpha].type = LBTC
    THEN Less(usdtBalance, alphaAmount)
    ELSE Less(btcBalance, alphaAmount)

isSwapButtonDisabled ==
    IF heap[state.alpha].type = LBTC
    THEN Less(btcBalance, alphaAmount)
    ELSE Less(usdtBalance, alphaAmount)

isCreatingNewSwap == app.run.pc \in {"creating", "posting", "extracting"}

\* getWalletStatus resolves (on mount, and on every reload after a message).
WalletStatusLoaded ==
    /\ \E s \in WalletStatuses : app' = [app EXCEPT !.walletStatus = s]
    /\ UNCHANGED <<heap, state, prev, pre, lastAction, outcome, rate, sww>>

\* getBalances resolves; it is only fetched while the wallet is loaded.
BalancesLoaded ==
    /\ app.walletStatus.loaded
    /\ \E b \in BalanceNumbers, u \in BalanceNumbers :
           app' = [app EXCEPT !.balances = [btc |-> b, usdt |-> u]]
    /\ UNCHANGED <<heap, state, prev, pre, lastAction, outcome, rate, sww>>

\* The payload a run of makeNewSwap asks for, from the state of the render it
\* was started in.
newSwapPayloadAlwaysSell ==
    [kind |-> "sell", amount |-> heap[state.alpha].amount.val]

newSwapPayload ==
    [kind |-> IF heap[state.alpha].type = LBTC THEN "sell" ELSE "buy",
     amount |-> heap[state.alpha].amount.val]

\* A click on the Swap button: the run starts and asks for its payload.
makeNewSwap ==
    /\ ~isSwapButtonDisabled
    /\ ~isCreatingNewSwap
    /\ app' = [app EXCEPT !.run =
                   [pc |-> "creating", kind |-> newSwapPayload.kind,
                    amount |-> newSwapPayload.amount,
                    created |-> <<newSwapPayload>>, posted |-> <<>>, tx |-> ""]]
    /\ UNCHANGED <<heap, state, prev, pre, lastAction, outcome, rate, sww>>

\* The payload is there: the run posts it (sell payloads with postSellPayload,
\* buy payloads with postBuyPayload).
PayloadCreated ==
    /\ app.run.pc = "creating"
    /\ app' = [app EXCEPT !.run.pc = "posting", !.run.posted = app.run.created]
    /\ UNCHANGED <<heap, state, prev, pre, lastAction, outcome, rate, sww>>

\* Any of the awaited calls rejects: the run ends there.
NewSwapFailed ==
    /\ isCreatingNewSwap
    /\ app' = [app EXCEPT !.run.pc = "failed"]
    /\ UNCHANGED <<heap, state, prev, pre, lastAction, outcome, rate, sww>>

\* The post answers with a transaction: the run asks for its trade.
PayloadPosted ==
    /\ app.run.pc = "posting"
    /\ \E tx \in Transactions : app' = [app EXCEPT !.run.pc = "extracting", !.run.tx = tx]
    /\ UNCHANGED <<heap, state, prev, pre, lastAction, outcome, rate, sww>>

\* extractTrade answers: the run stores the transaction and the trade.
TradeExtracted ==
    /\ app.run.pc = "extracting"
    /\ \E trade \in Trades :
           app' = [app EXCEPT !.run.pc = "done", !.transaction = <<app.run.tx, trade>>]
    /\ UNCHANGED <<heap, state, prev, pre, lastAction, outcome, rate, sww>>

\* postSellPayload once the fetch answered with res: it throws unless the
\* status is 200, and returns the body text otherwise.
postSellPayloadThrowsOnErrorStatus(res) ==
    IF res.status >= 400
    THEN [threw |-> TRUE, value |-> "failed to create new swap"]
    ELSE [threw |-> FALSE, value |-> res.text]

postSellPayload(res) ==
    IF res.status # StatusOk
    THEN [threw |-> TRUE, value |-> "failed to create new swap"]
    ELSE [threw |-> FALSE, value |-> res.text]

\* A click on SwapWithWallet's Swap button: a run of fetchSwapTransaction
\* starts and asks for the sell payload.
fetchSwapTransaction ==
    /\ \E i \in Fetches :
           /\ sww.fetch[i].pc = "idle"
           /\ \A j \in Fetches : j < i => sww.fetch[j].pc # "idle"
           /\ sww' = [sww EXCEPT !.fetch[i].pc = "creating"]
    /\ UNCHANGED <<heap, state, prev, pre, lastAction, outcome, rate, app>>

\* The payload is there: the run posts it with postSellPayload.
FetchPayloadCreated ==
    /\ \E i \in Fetches :
           /\ sww.fetch[i].pc = "creating"
           /\ sww' = [sww EXCEPT !.fetch[i].pc = "posting"]
    /\ UNCHANGED <<heap, state, prev, pre, lastAction, outcome, rate, app>>

\* The sell endpoint answers: postSellPayload throws, which ends the run, or
\* returns the transaction, which is stored and decomposed.
FetchPosted ==
    /\ \E i \in Fetches, res \in Responses :
           /\ sww.fetch[i].pc = "posting"
           /\ \E tx \in {postSellPayload(res)} :
                  sww' = IF tx.threw
                         THEN [sww EXCEPT !.fetch[i] = idleFetch,
                                          !.postError = res.status]
                         ELSE [sww EXCEPT !.fetch[i] = [pc |-> "decomposing",
                                                        tx |-> tx.value,
                                                        status |-> res.status],
                                          !.transaction = tx.value]
    /\ UNCHANGED <<heap, state, prev, pre, lastAction, outcome, rate, app>>

\* The elements of the run's transaction are there: they are stored and the
\* drawer opens.
FetchDecomposed ==
    /\ \E i \in Fetches :
           /\ sww.fetch[i].pc = "decomposing"
           /\ sww' = [sww EXCEPT !.fetch[i] = idleFetch,
                                 !.elements = sww.fetch[i].tx,
                                 !.isOpen = TRUE]
    /\ UNCHANGED <<heap, state, prev, pre, lastAction, outcome, rate, app>>

\* A call the run awaits rejects (making the payload, the request itself,
\* reading the body, decomposing): the run ends there.
FetchFailed ==
    /\ \E i \in Fetches :
           /\ sww.fetch[i].pc # "idle"
           /\ sww' = [sww EXCEPT !.fetch[i] = idleFetch]
    /\ UNCHANGED <<heap, state, prev, pre, lastAction, outcome, rate, app>>

\* The drawer's Cancel button.
CancelClick ==
    /\ sww.isOpen
    /\ sww' = [sww EXCEPT !.isOpen = FALSE]
    /\ UNCHANGED <<heap, state, prev, pre, lastAction, outcome, rate, app>>

\* A click on Sign and Send: onConfirm calls signAndSend(transaction).
onConfirm ==
    /\ sww.isOpen
    /\ sww.clicks < MaxConfirms
    /\ sww' = [sww EXCEPT !.clicks = @ + 1, !.signCalls = @ + 1, !.pending = @ + 1]
    /\ UNCHANGED <<heap, state, prev, pre, lastAction, outcome, rate, app>>

\* signAndSend returns txid: onConfirm hands it on, closes the drawer and
\* navigates.
onConfirmSigned(txid) ==
    /\ sww.pending > 0
    /\ sww' = [sww EXCEPT !.pending = @ - 1,
                          !.signed = Append(@, txid),
                          !.confirmed = Append(@, txid),
                          !.isOpen = FALSE,
                          !.closes = @ + 1,
                          !.path = "/swap/done",
                          !.pushes = @ + 1]
    /\ dispatch([type |-> "PublishTransaction", value |-> txid])
    /\ UNCHANGED <<rate, app>>

SignAndSendReturns == \E txid \in TxIds : onConfirmSigned(txid)

onConfirmFailedGoesOn ==
    /\ sww.pending > 0
    /\ sww' = [sww EXCEPT !.pending = @ - 1,
                          !.failed = @ + 1,
                          !.confirmed = Append(@, "undefined"),
                          !.isOpen = FALSE,
                          !.closes = @ + 1,
                          !.path = "/swap/done",
                          !.pushes = @ + 1]
    /\ dispatch([type |-> "PublishTransaction", value |-> "undefined"])
    /\ UNCHANGED <<rate, app>>

\* signAndSend fails: onConfirm ends with that failure.
onConfirmFailed ==
    /\ sww.pending > 0
    /\ sww' = [sww EXCEPT !.pending = @ - 1, !.failed = @ + 1]
    /\ UNCHANGED <<heap, state, prev, pre, lastAction, outcome, rate, app>>

Init ==
    /\ heap = [r \in Refs |-> IF r = InitialRef THEN initialAlpha ELSE Free]
    /\ state = initialState
    /\ prev = initialState
    /\ pre = Value(initialState, heap)
    /\ lastAction = NoAction
    /\ outcome = "none"
    /\ rate = initialRate
    /\ app = initialApp
    /\ sww = initialSww

Next ==
    \/ DispatchUpdateAlphaAmount
    \/ DispatchUpdateAlphaAssetType
    \/ DispatchUpdateBetaAssetType
    \/ DispatchSwapAssetTypes
    \/ DispatchPublishTransaction
    \/ DispatchUpdateBalance
    \/ DispatchUpdateWalletStatus
    \/ DispatchUnknown
    \/ OnAmountChange
    \/ OnAssetTypeChange
    \/ ExchangeIconOnClick
    \/ RateUpdate

Spec == Init /\ [][Next]_vars

\* The App as its user drives it: only the view dispatches, and the rate
\* subscription delivers rates.
NextView ==
    \/ OnAmountChange
    \/ OnAssetTypeChange
    \/ ExchangeIconOnClick
    \/ RateUpdate

SpecView == Init /\ [][NextView]_vars

\* The quote on display: the alpha leg is edited and rates arrive.
NextQuote ==
    \/ OnQuoteAmountChange
    \/ OnAssetTypeChange
    \/ ExchangeIconOnClick
    \/ RateUpdate

SpecQuote == Init /\ [][NextQuote]_vars

\* The swap page with its wallet and the Swap button.
NextNewSwap ==
    \/ OnAmountChange
    \/ OnAssetTypeChange
    \/ ExchangeIconOnClick
    \/ WalletStatusLoaded
    \/ BalancesLoaded
    \/ makeNewSwap
    \/ PayloadCreated
    \/ NewSwapFailed
    \/ PayloadPosted
    \/ TradeExtracted

SpecNewSwap == Init /\ [][NextNewSwap]_vars

\* The SwapWithWallet component.
NextWallet ==
    \/ fetchSwapTransaction
    \/ FetchPayloadCreated
    \/ FetchPosted
    \/ FetchDecomposed
    \/ FetchFailed
    \/ CancelClick
    \/ onConfirm
    \/ SignAndSendReturns
    \/ onConfirmFailed

SpecWallet == Init /\ [][NextWallet]_vars

\* ------------------------------------------------------------ properties
\* The current form state, by value.
current == Value(state, heap)
\* The last call was a reducer call of the given kind that returned a state.
Applied(kind) == lastAction.type = kind /\ outcome = "returned"

\* C1: in every state reachable by the reducer's actions, alpha.type differs
\* from beta.
AlphaTypeDiffersFromBeta == current.alpha.type # current.beta

\* C1 witness: UpdateBetaAssetType was applied with the asset alpha held.
AlphaTypeDiffersFromBetaWitness ==
    /\ Applied("UpdateBetaAssetType")
    /\ lastAction.value = pre.alpha.type
    /\ current.alpha.type # current.beta

\* C2: the reducer has no side effect on its input: the state object passed
\* to it has the same value after the call as before it.
ReducerLeavesInputUnchanged ==
    outcome = "returned" => Value(prev, heap) = pre

\* C3: UpdateAlphaAssetType(newType) with newType = state.beta yields
\* alpha.type = newType, beta = the original alpha.type, and the original
\* alpha.amount.
UpdateAlphaAssetTypeFlips ==
    (Applied("UpdateAlphaAssetType") /\ lastAction.value = pre.beta) =>
        /\ current.alpha.type = lastAction.value
        /\ current.beta = pre.alpha.type
        /\ current.alpha.amount = pre.alpha.amount

\* C3 witness: the action was applied to a state whose beta was newType.
UpdateAlphaAssetTypeFlipsWitness ==
    /\ Applied("UpdateAlphaAssetType")
    /\ lastAction.value = pre.beta
    /\ pre.alpha.type # pre.beta
    /\ current.beta = pre.alpha.type

\* C4: UpdateBetaAssetType(newType) with newType = state.alpha.type yields
\* beta = newType, alpha.type = the original beta, and the original
\* alpha.amount.
UpdateBetaAssetTypeFlips ==
    (Applied("UpdateBetaAssetType") /\ lastAction.value = pre.alpha.type) =>
        /\ current.beta = lastAction.value
        /\ current.alpha.type = pre.beta
        /\ current.alpha.amount = pre.alpha.amount

\* C4 witness: the action was applied to a state whose alpha.type was newType.
UpdateBetaAssetTypeFlipsWitness ==
    /\ Applied("UpdateBetaAssetType")
    /\ lastAction.value = pre.alpha.type
    /\ pre.alpha.type # pre.beta
    /\ current.alpha.type = pre.beta

\* C5: SwapAssetTypes yields alpha.type = the old beta and beta = the old
\* alpha.type, and alpha.amount stays the old alpha.amount; it is not the
\* beta amount the action carries.
SwapAssetTypesExchangesTypes ==
    Applied("SwapAssetTypes") =>
        /\ current.alpha.type = pre.beta
        /\ current.beta = pre.alpha.type
        /\ current.alpha.amount = pre.alpha.amount

\* C5 witness: the exchange button was used with a beta amount that differs
\* from the number alpha.amount parses to, and the amount stayed.
SwapAssetTypesExchangesTypesWitness ==
    /\ Applied("SwapAssetTypes")
    /\ lastAction.value.betaAmount # ParseFloat(pre.alpha.amount)
    /\ lastAction.value.betaAmount.n > 0
    /\ current.alpha.type = pre.beta
    /\ current.alpha.amount = pre.alpha.amount

\* The form state after one more SwapAssetTypes, by value.
SwappedAgain ==
    LET res == reducer(state, heap, lastAction) IN Value(res.state, res.heap)

\* C6: SwapAssetTypes is self-inverse: applied twice in a row it restores the
\* original alpha.type, beta and alpha.amount.  (Every reachable state is the
\* state a first SwapAssetTypes is applied to; the second one is applied to
\* the state the first one returned.)
SwapAssetTypesSelfInverse ==
    Applied("SwapAssetTypes") =>
        /\ SwappedAgain.alpha.type = pre.alpha.type
        /\ SwappedAgain.beta = pre.beta
        /\ SwappedAgain.alpha.amount = pre.alpha.amount

\* C6 witness: a first SwapAssetTypes changed the types, a second restores them.
SwapAssetTypesSelfInverseWitness ==
    /\ Applied("SwapAssetTypes")
    /\ current.alpha.type # pre.alpha.type
    /\ SwappedAgain.alpha = pre.alpha
    /\ SwappedAgain.beta = pre.beta

\* C7: UpdateAlphaAmount(amount) yields alpha.amount = amount and leaves
\* alpha.type, beta, txId and wallet unchanged.
UpdateAlphaAmountFrame ==
    Applied("UpdateAlphaAmount") =>
        /\ current.alpha.amount = lastAction.value
        /\ current.alpha.type = pre.alpha.type
        /\ current.beta = pre.beta
        /\ current.txId = pre.txId
        /\ current.wallet = pre.wallet

\* C7 witness: a new amount was set on a USDt alpha leg with a loaded wallet.
UpdateAlphaAmountFrameWitness ==
    /\ Applied("UpdateAlphaAmount")
    /\ current.alpha.amount # pre.alpha.amount
    /\ current.alpha.type = USDT
    /\ current.wallet.status.loaded
    /\ current.wallet.balance.btcBalance > 0

\* C8: an action whose kind is not handled raises an error; no state is
\* returned, changed or unchanged.
UnknownActionThrows ==
    (lastAction # NoAction /\ lastAction.type \notin HandledKinds) =>
        /\ outcome = "threw"
        /\ current = pre

\* C8 witness: an action of an unhandled kind was dispatched.
UnknownActionThrowsWitness ==
    /\ lastAction.type = "Unknown"
    /\ outcome = "threw"
    /\ current # Value(initialState, [r \in Refs |-> initialAlpha])

\* C9: PublishTransaction(txId) is a no-op on the form state: alpha.type,
\* alpha.amount, beta, txId and wallet are those of the input state.
PublishTransactionNoOp ==
    Applied("PublishTransaction") => current = pre

\* C9 witness: a transaction id was published and the stored txId is not it.
PublishTransactionNoOpWitness ==
    /\ Applied("PublishTransaction")
    /\ lastAction.value \in TxIds
    /\ current.txId # lastAction.value
    /\ current.alpha.type = USDT

\* C10: in every state reachable through the view's dispatches alpha.amount
\* is a string, never a number.
AlphaAmountIsString == current.alpha.amount.tag = "string"

\* C11: an edit of the beta leg's amount is rejected: onAmountChange on a side
\* other than Alpha raises an error, dispatches no action and leaves the form
\* state unchanged; an amount only ever changes through UpdateAlphaAmount.
BetaAmountEditRejected ==
    /\ [][\A n \in AmountNumbers :
            onAmountChange("Beta", n) =>
                /\ outcome' = "rejected"
                /\ lastAction' = NoAction
                /\ state' = state
                /\ Value(state', heap') = Value(state, heap)]_vars
    /\ [](current.alpha.amount # pre.alpha.amount => Applied("UpdateAlphaAmount"))

\* C11 witness: after an edit of the alpha amount, an edit of the beta amount
\* was rejected.
BetaAmountEditRejectedWitness ==
    /\ outcome = "rejected"
    /\ lastAction = NoAction
    /\ current = pre
    /\ current.alpha.amount.tag = "number"

\* The rate of the quote examples.
exampleRate == [ask |-> Fin(30100, 1), bid |-> Fin(30000, 1)]
\* The side of the rate that applies to the alpha leg.
appliedRate == IF current.alpha.type = LBTC THEN rate.bid ELSE rate.ask
\* A quote can be computed: a finite non-negative amount and a positive rate.
Computable == alphaAmount.k = "fin" /\ alphaAmount.n >= 0 /\ appliedRate.n > 0

\* C12: the beta amount is determined by alpha's type and amount and the rate
\* alone: alphaAmount * rate.bid when alpha is L-BTC, alphaAmount / rate.ask
\* when alpha is USDt (1 L-BTC at bid 30000 gives 30000, 30100 USDt at ask
\* 30100 gives 1), and the direction shown is bid exactly when alpha is L-BTC.
QuoteFollowsAlphaLeg ==
    /\ (Computable /\ current.alpha.type = "L-BTC") =>
            betaAmount = Mul(alphaAmount, rate.bid)
    /\ (Computable /\ current.alpha.type = "USDt") =>
            betaAmount = Div(alphaAmount, rate.ask)
    /\ (current.alpha.type = "L-BTC" /\ alphaAmount = Fin(1, 1) /\ rate = exampleRate) =>
            betaAmount = Fin(30000, 1)
    /\ (current.alpha.type = "USDt" /\ alphaAmount = Fin(30100, 1) /\ rate = exampleRate) =>
            betaAmount = Fin(1, 1)
    /\ (rateInfo.direction = "bid") <=> (current.alpha.type = "L-BTC")
    /\ rateInfo.shown = appliedRate

\* C12 witness: 30100 USDt on the alpha leg at the example rate quotes 1.
QuoteFollowsAlphaLegWitness ==
    /\ current.alpha.type = "USDt"
    /\ current.beta = "L-BTC"
    /\ alphaAmount = Fin(30100, 1)
    /\ rate = exampleRate
    /\ betaAmount = Fin(1, 1)
    /\ rateInfo.direction = "ask"

\* C13: a quote that cannot be computed (alphaAmount not a finite
\* non-negative number, or a rate that is zero or negative) is zero; the beta
\* amount is never NaN, infinite or negative.
NonComputableQuoteIsZero ==
    /\ betaAmount.k = "fin"
    /\ betaAmount.n >= 0
    /\ betaAmount.d > 0
    /\ ~Computable => betaAmount = Fin(0, 1)

\* C13 witness: the alpha field was emptied (NaN) while a positive rate was
\* current, and the quote is zero.
NonComputableQuoteIsZeroWitness ==
    /\ Applied("UpdateAlphaAmount")
    /\ current.alpha.amount = Num("NaN")
    /\ alphaAmount = NaN
    /\ appliedRate.n > 0
    /\ betaAmount = Fin(0, 1)

\* C14: whenever the rate subscription delivers a rate, between whatever user
\* actions, the form state (alpha.type, alpha.amount, beta) stays as it is and
\* the beta amount derived afterwards is the calculator's result for the
\* current alpha leg and the rate just delivered, whatever the rates before.
RateUpdateLastWins ==
    [][\A r \in Rates :
         onRate(r) =>
            /\ state' = state
            /\ Value(state', heap') = Value(state, heap)
            /\ betaAmount' = calculateBetaAmount(current.alpha.type,
                                                  ParseFloat(current.alpha.amount), r)]_vars

\* C14 witness: with an edited USDt alpha leg, the example rate is the one
\* in force and the quote is the amount over its ask.
RateUpdateLastWinsWitness ==
    /\ Applied("UpdateAlphaAmount")
    /\ current.alpha.type = USDT
    /\ rate = exampleRate
    /\ rate # initialRate
    /\ betaAmount.n > 0
    /\ betaAmount = Div(alphaAmount, exampleRate.ask)

\* The form state a SwapAssetTypes action carrying beta amount b leads to,
\* from the state object st.
SwapWith(st, b) ==
    LET res == reducer(st, heap, [type |-> "SwapAssetTypes", value |-> [betaAmount |-> b]])
    IN  [threw |-> res.threw, value |-> Value(res.state, res.heap)]

\* C16: the betaAmount a SwapAssetTypes action carries is not stored and has
\* no influence: from every state, two such actions with different beta
\* amounts lead to the same successor, and no state holds a beta amount (a
\* state is {alpha: {type, amount}, beta, txId, wallet} with beta an asset).
SwapIgnoresBetaAmount ==
    /\ \A b1, b2 \in BetaAmounts \cup {betaAmount} :
          /\ ~SwapWith(state, b1).threw
          /\ SwapWith(state, b1) = SwapWith(state, b2)
    /\ DOMAIN state = {"alpha", "beta", "txId", "wallet"}
    /\ DOMAIN heap[state.alpha] = {"type", "amount"}
    /\ state.beta \in Asset

\* C16 witness: SwapAssetTypes was applied, and with another beta amount it
\* would have led from the same state to the same successor.
SwapIgnoresBetaAmountWitness ==
    /\ Applied("SwapAssetTypes")
    /\ \E b \in BetaAmounts :
          /\ b # lastAction.value.betaAmount
          /\ SwapWith(prev, b).value = current

\* C17: the form state starts as alpha L-BTC "0.01" and beta USDt, and every
\* change of it is the result of the reducer for a dispatched action.
FormStartsFixedAndChangesByDispatch ==
    /\ current.alpha.type = "L-BTC"
    /\ current.alpha.amount = Str("0.01")
    /\ current.beta = "USDt"
    /\ [][Value(state', heap') # Value(state, heap) =>
            /\ outcome' = "returned"
            /\ lastAction'.type \in HandledKinds
            /\ pre' = Value(state, heap)
            /\ LET res == reducer(state, heap, lastAction') IN
                Value(state', heap') = Value(res.state, res.heap)]_vars

\* C17 witness: the first change of the initial form state, by a dispatch.
FormStartsFixedAndChangesByDispatchWitness ==
    /\ outcome = "returned"
    /\ lastAction.type \in HandledKinds
    /\ pre.alpha = [type |-> "L-BTC", amount |-> Str("0.01")]
    /\ pre.beta = "USDt"
    /\ current # pre

\* The form state after the last action is applied once more.
AppliedAgain ==
    LET res == reducer(state, heap, lastAction) IN Value(res.state, res.heap)

\* C18: selecting again the asset a leg already holds changes nothing:
\* UpdateAlphaAssetType(state.alpha.type) and UpdateBetaAssetType(state.beta)
\* keep alpha.type, alpha.amount and beta, and each of the two asset-type
\* actions applied a second time changes nothing any more.
ReselectingChangesNothing ==
    /\ (Applied("UpdateAlphaAssetType") /\ lastAction.value = pre.alpha.type) =>
            (current.alpha = pre.alpha /\ current.beta = pre.beta)
    /\ (Applied("UpdateBetaAssetType") /\ lastAction.value = pre.beta) =>
            (current.alpha = pre.alpha /\ current.beta = pre.beta)
    /\ (Applied("UpdateAlphaAssetType") \/ Applied("UpdateBetaAssetType")) =>
            (AppliedAgain.alpha = current.alpha /\ AppliedAgain.beta = current.beta)

\* C18 witness: with USDt on the alpha leg, beta's own asset was selected
\* for beta again.
ReselectingChangesNothingWitness ==
    /\ Applied("UpdateBetaAssetType")
    /\ lastAction.value = pre.beta
    /\ pre.alpha.type = USDT
    /\ current = pre

\* The balance App holds of the asset on the alpha leg.
alphaBalance == IF current.alpha.type = "L-BTC" THEN btcBalance ELSE usdtBalance

\* A run of makeNewSwap starts in this step.
RunStarts == app.run.pc # "creating" /\ app'.run.pc = "creating"

\* C19: in every reachable state the Swap button is disabled when the balance of
\* the asset on the alpha leg (the L-BTC balance when alpha.type is LBTC, the
\* USDt balance otherwise) is less than the parsed alpha amount, so no run of
\* makeNewSwap starts in a state where that balance is less than the amount.
SwapButtonDisabledBelowAmount ==
    /\ [](Less(alphaBalance, alphaAmount) => isSwapButtonDisabled)
    /\ [][RunStarts => ~Less(alphaBalance, alphaAmount)]_vars

\* The types were exchanged, the balance of the asset now on the alpha leg is
\* less than the amount, the other balance is not, and the button is disabled.
SwapButtonDisabledBelowAmountWitness ==
    /\ Applied("SwapAssetTypes")
    /\ current.alpha.type = "USDt"
    /\ Less(usdtBalance, alphaAmount)
    /\ ~Less(btcBalance, alphaAmount)
    /\ isSwapButtonDisabled
    /\ app.run.pc = "done"

\* C20: a run of makeNewSwap asks for one payload, of the alpha amount as text,
\* a sell payload when alpha.type is LBTC at its start and a buy payload when it
\* is USDT; it posts that payload and no other, once; and the stored transaction
\* and trade change only in the step where extractTrade answered, after the
\* post answered, to the transaction the post returned.
NewSwapPostsOnePayload ==
    /\ [](LET run == app.run IN
          /\ Len(run.created) <= 1
          /\ Len(run.posted) <= 1
          /\ run.pc # "idle" =>
                 /\ run.created = <<[kind |-> run.kind, amount |-> run.amount]>>
                 /\ run.kind \in {"sell", "buy"}
          /\ run.pc \in {"posting", "extracting", "done"} => run.posted = run.created
          /\ run.posted # <<>> => run.posted = run.created
          /\ run.pc = "creating" => run.posted = <<>>)
    /\ [][RunStarts =>
              /\ app'.run.kind = (IF current.alpha.type = "L-BTC" THEN "sell" ELSE "buy")
              /\ current.alpha.type = "USDt" => app'.run.kind = "buy"
              /\ app'.run.amount = current.alpha.amount.val]_vars
    /\ [][app'.transaction # app.transaction =>
              /\ app.run.pc = "extracting"
              /\ app'.run.pc = "done"
              /\ app.run.posted # <<>>
              /\ app.run.tx \in Transactions
              /\ app'.transaction[1] = app.run.tx]_vars

\* A run started with USDt on the alpha leg has posted its one buy payload and
\* stored the transaction the post returned.
NewSwapPostsOnePayloadWitness ==
    /\ app.run.pc = "done"
    /\ app.run.kind = "buy"
    /\ app.run.posted = <<[kind |-> "buy", amount |-> app.run.amount]>>
    /\ app.transaction[1] = app.run.tx
    /\ app.transaction[1] \in Transactions

\* signAndSend fails in this step.
SignAndSendFails == sww'.failed = sww.failed + 1

\* C15: what onConfirm does after signAndSend (the onConfirmed call, the
\* PublishTransaction dispatch, the drawer close, the navigation to the done
\* page) happens once per transaction id signAndSend returned and carries that
\* id; a step in which signAndSend fails does none of them, and signAndSend is
\* called once per click.
OnConfirmActsOnlyOnTxId ==
    /\ [](/\ sww.confirmed = sww.signed
          /\ sww.closes = Len(sww.signed)
          /\ sww.pushes = Len(sww.signed)
          /\ sww.path = "/swap/done" => sww.signed # <<>>
          /\ lastAction.type = "PublishTransaction" =>
                 /\ sww.signed # <<>>
                 /\ lastAction.value = sww.signed[Len(sww.signed)]
          /\ lastAction.type = "PublishTransaction" <=> sww.signed # <<>>
          /\ sww.signCalls = sww.clicks
          /\ sww.signCalls = sww.pending + Len(sww.signed) + sww.failed)
    /\ [][SignAndSendFails =>
              /\ sww'.confirmed = sww.confirmed
              /\ sww'.isOpen = sww.isOpen
              /\ sww'.path = sww.path
              /\ sww'.signCalls = sww.signCalls
              /\ lastAction' = lastAction
              /\ state' = state]_vars

\* Of two clicks one signAndSend failed and the other returned tx2, which was
\* handed on, dispatched and navigated with.
OnConfirmActsOnlyOnTxIdWitness ==
    /\ sww.clicks = 2
    /\ sww.failed = 1
    /\ sww.signed = <<"tx2">>
    /\ sww.confirmed = <<"tx2">>
    /\ ~sww.isOpen
    /\ sww.path = "/swap/done"
    /\ lastAction = [type |-> "PublishTransaction", value |-> "tx2"]

\* The post of run i ends without a transaction in this step.
PostFails(i) == sww.fetch[i].pc = "posting" /\ sww'.fetch[i].pc = "idle"

\* C21: postSellPayload throws for every response whose status is not 200 and
\* returns the body text only for status 200, so a run of fetchSwapTransaction
\* goes on to decompose only the text of a 200 response; the drawer is opened
\* only in the step where a run that created its payload and posted it
\* successfully got its transaction decomposed, and a step in which a post
\* fails leaves the drawer, the stored transaction and the stored elements as
\* they were.
DrawerOpensOnlyAfterSuccessfulPost ==
    /\ [](\A i \in Fetches :
              /\ sww.fetch[i].pc = "decomposing" =>
                     /\ sww.fetch[i].status = 200
                     /\ sww.fetch[i].tx \in Transactions
              /\ sww.fetch[i].pc # "decomposing" => sww.fetch[i] = idleFetch \/
                     sww.fetch[i] = [idleFetch EXCEPT !.pc = sww.fetch[i].pc])
    /\ [](sww.postError # 0 => sww.postError \in Statuses /\ sww.postError # 200)
    /\ [](sww.isOpen => sww.elements \in Transactions)
    /\ [][\A i \in Fetches :
              (sww.fetch[i].pc = "posting" /\ sww'.fetch[i].pc = "decomposing") =>
                  /\ sww'.fetch[i].status = 200
                  /\ sww'.transaction = sww'.fetch[i].tx]_vars
    /\ [][(~sww.isOpen /\ sww'.isOpen) =>
              \E i \in Fetches :
                  /\ sww.fetch[i].pc = "decomposing"
                  /\ sww.fetch[i].status = 200
                  /\ sww'.fetch[i].pc = "idle"
                  /\ sww'.elements = sww.fetch[i].tx]_vars
    /\ [][\A i \in Fetches :
              PostFails(i) =>
                  /\ sww'.isOpen = sww.isOpen
                  /\ sww'.transaction = sww.transaction
                  /\ sww'.elements = sww.elements]_vars

\* The sell endpoint answered a post with status 201: the run ended, the drawer
\* is closed and no transaction is stored.
DrawerOpensOnlyAfterSuccessfulPostWitness ==
    /\ sww.postError = 201
    /\ \A i \in Fetches : sww.fetch[i].pc = "idle"
    /\ ~sww.isOpen
    /\ sww.transaction = ""
    /\ sww.elements = "undefined"

====
